---- MODULE Spec2Model ----
(***************************************************************************)
(* Model of host/flush_tracer.go: the pubsub RawTracer / EventTracer       *)
(* adapter of Host and its delivery path FlushTraceWithTimestamp.          *)
(*                                                                         *)
(* Every protocol thread is a process that is either outside the tracer    *)
(* ("idle") or inside one callback.  A callback that flushes builds the    *)
(* TraceEvent, derives a 10 second context, and calls DataStream.PutEvent; *)
(* the thread then waits at "PutEvent" until the sink answers or the       *)
(* context expires, adds to the counter on success ("Add") and runs the    *)
(* deferred cancel when it returns ("return").                             *)
(***************************************************************************)
EXTENDS Integers, Sequences, FiniteSets, TLC

\* ------------------------------------------------------------------ bounds
MaxCalls == 2        \* callback invocations explored in one behaviour
MaxTime == 20        \* the clock (seconds) stops advancing here
TickStep == 10       \* largest advance of the clock in one step
MaxKeys == 2         \* PartitionKey calls the sink makes on one record

\* -------------------------------------------------------------- constants
Timeout == 10        \* 10*time.Second, in seconds
NanosPerSecond == 1000000000

Threads == {"g1", "g2"}
HostID == "self"
RemotePeer == "peerA"
Topics == {"topic-A"}
Protocols == {"/meshsub/1.1.0"}

\* An optional (pointer) field is a sequence of length 0 or 1.
None == <<>>
Some(v) == <<v>>

\* ----------------------------------------------------------- Go values
GoString(s) == [kind |-> "string", val |-> s]
GoBytes(b) == [kind |-> "bytes", val |-> b]
GoBool(b) == [kind |-> "bool", val |-> b]
GoInt(n) == [kind |-> "int", val |-> n]
GoPeer(p) == [kind |-> "peer.ID", val |-> p]
GoChan == [kind |-> "chan", val |-> 0]
GoMap(m) == [kind |-> "map", val |-> m]
GoStruct(s) == [kind |-> "struct", val |-> s]

\* ---------------------------------------------------------- event types
EventTypeAddPeer == "ADD_PEER"
EventTypeRemovePeer == "REMOVE_PEER"
EventTypeJoin == "JOIN"
EventTypeLeave == "LEAVE"
EventTypeGraft == "GRAFT"
EventTypePrune == "PRUNE"
EventTypeValidateMessage == "VALIDATE_MESSAGE"
EventTypeDeliverMessage == "DELIVER_MESSAGE"
EventTypeRejectMessage == "REJECT_MESSAGE"
EventTypeDuplicateMessage == "DUPLICATE_MESSAGE"
EventTypeThrottlePeer == "THROTTLE_PEER"
EventTypeUndeliverableMessage == "UNDELIVERABLE_MESSAGE"
EventTypePublishMessage == "PUBLISH_MESSAGE"
EventTypeRecvRPC == "RECV_RPC"
EventTypeSendRPC == "SEND_RPC"
EventTypeDropRPC == "DROP_RPC"

\* ------------------------------------------------------------------ time
\* time.Unix(sec, nsec): nsec outside [0, 1e9) is carried into sec.
Unix(sec, nsec) ==
    [sec |-> sec + (nsec \div NanosPerSecond), nsec |-> nsec % NanosPerSecond]

UnixNano(t) == t.sec * NanosPerSecond + t.nsec

\* ------------------------------------------------------------ hex
HexDigits == <<"0", "1", "2", "3", "4", "5", "6", "7",
               "8", "9", "a", "b", "c", "d", "e", "f">>

RECURSIVE EncodeToString(_)
EncodeToString(b) ==
    IF b = <<>> THEN ""
    ELSE HexDigits[(Head(b) \div 16) + 1] \o HexDigits[(Head(b) % 16) + 1]
         \o EncodeToString(Tail(b))

VARIABLES
    pc,                     \* per thread: where it is inside the tracer
    cb,                     \* per thread: the callback it is executing
    evt,                    \* per thread: the TraceEvent it built
    ctx,                    \* per thread: the context.WithTimeout it owns
    now,                    \* wall clock, seconds
    calls,                  \* callback invocations so far
    lastCall,               \* the most recent callback invocation
    sinkPuts,               \* per invocation: PutEvent calls the sink received
    sinkResult,             \* per invocation: what PutEvent returned
    meterSubmittedTraces    \* the submitted-traces counter

\* The gk.Record methods of one TraceEvent, as the sink calls them.
VARIABLES
    rec,                    \* the TraceEvent whose methods are called
    uuidClock,              \* UUIDs the generator has handed out
    keys,                   \* what each PartitionKey call returned
    wire                    \* what Data returned, once it was called

recVars == <<rec, uuidClock, keys, wire>>

vars == <<pc, cb, evt, ctx, now, calls, lastCall, sinkPuts, sinkResult,
          meterSubmittedTraces, rec, uuidClock, keys, wire>>

CallIds == 1..MaxCalls

Init ==
    /\ pc = [t \in Threads |-> "idle"]
    /\ cb = [t \in Threads |-> None]
    /\ evt = [t \in Threads |-> None]
    /\ ctx = [t \in Threads |-> None]
    /\ now = 0
    /\ calls = 0
    /\ lastCall = [name |-> "none", kind |-> ""]
    /\ sinkPuts = [i \in CallIds |-> 0]
    /\ sinkResult = [i \in CallIds |-> "none"]
    /\ meterSubmittedTraces = 0
    /\ rec = None
    /\ uuidClock = 0
    /\ keys = <<>>
    /\ wire = None

\* ------------------------------------------------- pubsub collaborators
\* pubsub.Message as the callbacks read it: ReceivedFrom, the optional
\* topic, the message id, the Local flag, the sequence number and Size().
Messages ==
    { [ReceivedFrom |-> RemotePeer, Topic |-> Some("topic-A"),
       ID |-> <<171, 18>>, Local |-> FALSE, Seqno |-> <<0, 255>>, Size |-> 42],
      [ReceivedFrom |-> HostID, Topic |-> None,
       ID |-> <<>>, Local |-> TRUE, Seqno |-> <<>>, Size |-> 0] }

Reasons == {"invalid-signature"}

GetTopic(m) == IF m.Topic = None THEN "" ELSE m.Topic[1]

GetSeqno(m) == m.Seqno

\* pubsubpb.TraceEvent kinds; PUBLISH_MESSAGE is the enum's zero value.
TraceEvent_PUBLISH_MESSAGE == "pb.PUBLISH_MESSAGE"
TraceEvent_RECV_RPC == "pb.RECV_RPC"
TraceEvent_SEND_RPC == "pb.SEND_RPC"
TraceEvent_DROP_RPC == "pb.DROP_RPC"
TraceEvent_JOIN == "pb.JOIN"
TraceEvent_GRAFT == "pb.GRAFT"

HandledKinds ==
    {TraceEvent_PUBLISH_MESSAGE, TraceEvent_RECV_RPC, TraceEvent_SEND_RPC,
     TraceEvent_DROP_RPC}

NoBody == [Type |-> None, Timestamp |-> None, PublishMessage |-> None,
           RecvRPC |-> None, SendRPC |-> None, DropRPC |-> None]

RPCBody == [Messages |-> <<>>, Control |-> None,
            Subscription |-> <<[Subscribe |-> TRUE, Topic |-> "topic-A"]>>]

\* The wire-trace notifications handed to Trace.
Notifications ==
    { [NoBody EXCEPT !.Type = Some(TraceEvent_PUBLISH_MESSAGE),
                     !.Timestamp = Some(1500000000),
                     !.PublishMessage = Some([MessageID |-> <<171, 18>>,
                                              Topic |-> Some("topic-A")])],
      [NoBody EXCEPT !.Timestamp = Some(-1)],
      [NoBody EXCEPT !.Type = Some(TraceEvent_RECV_RPC),
                     !.Timestamp = Some(1500000000),
                     !.RecvRPC = Some([ReceivedFrom |-> RemotePeer,
                                       Meta |-> Some(RPCBody)]),
                     !.SendRPC = Some([SendTo |-> "peerB", Meta |-> None])],
      [NoBody EXCEPT !.Type = Some(TraceEvent_SEND_RPC),
                     !.SendRPC = Some([SendTo |-> RemotePeer, Meta |-> None])],
      [NoBody EXCEPT !.Type = Some(TraceEvent_DROP_RPC),
                     !.Timestamp = Some(2000000000),
                     !.DropRPC = Some([SendTo |-> RemotePeer,
                                       Meta |-> Some(RPCBody)])],
      [NoBody EXCEPT !.Type = Some(TraceEvent_JOIN),
                     !.Timestamp = Some(1500000000)],
      [NoBody EXCEPT !.Type = Some(TraceEvent_GRAFT)] }

\* Generated getters: a missing field reads as the zero value.
GetType(n) == IF n.Type = None THEN TraceEvent_PUBLISH_MESSAGE ELSE n.Type[1]

GetTimestamp(n) == IF n.Timestamp = None THEN 0 ELSE n.Timestamp[1]

GetMessageID(n) ==
    IF n.PublishMessage = None THEN <<>> ELSE n.PublishMessage[1].MessageID

GetPublishTopic(n) ==
    IF n.PublishMessage = None \/ n.PublishMessage[1].Topic = None THEN ""
    ELSE n.PublishMessage[1].Topic[1]

GetReceivedFrom(n) == IF n.RecvRPC = None THEN "" ELSE n.RecvRPC[1].ReceivedFrom

GetSendTo(b) == IF b = None THEN "" ELSE b[1].SendTo

GetMeta(b) == IF b = None THEN None ELSE b[1].Meta

\* newRPCMeta: the normalized payload of the three RPC kinds.
newRPCMeta(pid, meta) ==
    GoStruct([PeerID |-> pid,
              Subscriptions |-> IF meta = None THEN <<>> ELSE meta[1].Subscription,
              Messages |-> IF meta = None THEN <<>> ELSE meta[1].Messages,
              Control |-> IF meta = None THEN None ELSE meta[1].Control])

\* h.ID(): the identity of the local node.
ID == HostID

\* ---------------------------------------------------------- TraceEvent
\* json.Marshal rejects a value of a kind JSON cannot represent.
Representable(v) ==
    /\ v.kind # "chan"
    /\ v.kind = "map" => \A k \in DOMAIN v.val : v.val[k].kind # "chan"

\* peer.ID.String(): peers are named here by their text form.
String(p) == p

\* ---------------------------------------------------------------- JSON
\* A JSON text is held as the value it denotes: a string, a number, a
\* boolean, null, an array, or an object (a function of its member names).
JString(str) == [j |-> "string", v |-> str]
JNumber(n) == [j |-> "number", v |-> n]
JBool(b) == [j |-> "bool", v |-> b]
JNull == [j |-> "null", v |-> 0]
JArray(a) == [j |-> "array", v |-> a]
JObject(o) == [j |-> "object", v |-> o]

\* base64.StdEncoding, which encoding/json applies to a []byte.
Base64Alphabet ==
    "ABCDEFGHIJKLMNOPQRSTUVWXYZabcdefghijklmnopqrstuvwxyz0123456789+/"

Base64Char(n) == SubSeq(Base64Alphabet, n + 1, n + 1)

RECURSIVE Base64Encode(_)
Base64Encode(b) ==
    IF Len(b) = 0 THEN ""
    ELSE IF Len(b) = 1
    THEN Base64Char(b[1] \div 4) \o Base64Char((b[1] % 4) * 16) \o "=="
    ELSE IF Len(b) = 2
    THEN Base64Char(b[1] \div 4)
         \o Base64Char((b[1] % 4) * 16 + (b[2] \div 16))
         \o Base64Char((b[2] % 16) * 4) \o "="
    ELSE Base64Char(b[1] \div 4)
         \o Base64Char((b[1] % 4) * 16 + (b[2] \div 16))
         \o Base64Char((b[2] % 16) * 4 + (b[3] \div 64))
         \o Base64Char(b[3] % 64)
         \o Base64Encode(SubSeq(b, 4, Len(b)))

Base64Index(c) == CHOOSE n \in 0..63 : Base64Char(n) = c

\* What a consumer does with such a string to get the bytes back.
RECURSIVE Base64Decode(_)
Base64Decode(str) ==
    IF Len(str) < 4 THEN <<>>
    ELSE LET c1 == Base64Index(SubSeq(str, 1, 1))
             c2 == Base64Index(SubSeq(str, 2, 2))
             p3 == SubSeq(str, 3, 3) = "="
             p4 == SubSeq(str, 4, 4) = "="
             c3 == IF p3 THEN 0 ELSE Base64Index(SubSeq(str, 3, 3))
             c4 == IF p4 THEN 0 ELSE Base64Index(SubSeq(str, 4, 4))
             b1 == c1 * 4 + (c2 \div 16)
             b2 == (c2 % 16) * 16 + (c3 \div 4)
             b3 == (c3 % 4) * 64 + c4
         IN  IF p3 THEN <<b1>>
             ELSE IF p4 THEN <<b1, b2>>
             ELSE <<b1, b2, b3>> \o Base64Decode(SubSeq(str, 5, Len(str)))

\* The last k decimal digits of n.
RECURSIVE Decimal(_, _)
Decimal(n, k) ==
    IF k = 0 THEN "" ELSE Decimal(n \div 10, k - 1) \o ToString(n % 10)

RECURSIVE TrimZeros(_)
TrimZeros(str) ==
    IF Len(str) > 0 /\ SubSeq(str, Len(str), Len(str)) = "0"
    THEN TrimZeros(SubSeq(str, 1, Len(str) - 1))
    ELSE str

\* time.Time.MarshalJSON: the RFC 3339 text with the fraction of the second
\* to the nanosecond, trailing zeros dropped.  The date and time of day are
\* written here as the count of seconds.
MarshalTime(t) ==
    ToString(t.sec)
    \o (IF t.nsec = 0 THEN "" ELSE "." \o TrimZeros(Decimal(t.nsec, 9)))
    \o "Z"

DigitOf(c) == CHOOSE d \in 0..9 : ToString(d) = c

RECURSIVE ParseDigits(_, _)
ParseDigits(str, acc) ==
    IF str = "" THEN acc
    ELSE ParseDigits(Tail(str), acc * 10 + DigitOf(Head(str)))

RECURSIVE Power10(_)
Power10(k) == IF k = 0 THEN 1 ELSE 10 * Power10(k - 1)

\* The position of the first "." of str, or 0.
RECURSIVE DotAt(_, _)
DotAt(str, i) ==
    IF i > Len(str) THEN 0
    ELSE IF SubSeq(str, i, i) = "." THEN i
    ELSE DotAt(str, i + 1)

\* What a consumer reads out of that text (time.Time.UnmarshalJSON).
ParseTime(str) ==
    LET body == SubSeq(str, 1, Len(str) - 1)
        dot == DotAt(body, 1)
        whole == IF dot = 0 THEN body ELSE SubSeq(body, 1, dot - 1)
        frac == IF dot = 0 THEN "" ELSE SubSeq(body, dot + 1, Len(body))
    IN  [sec |-> IF Head(whole) = "-" THEN 0 - ParseDigits(Tail(whole), 0)
                 ELSE ParseDigits(whole, 0),
         nsec |-> ParseDigits(frac, 0) * Power10(9 - Len(frac))]

\* RpcMeta as encoding/json writes it: one member per field.
MarshalRPCMeta(m) ==
    JObject([PeerID |-> JString(String(m.PeerID)),
             Subscriptions |->
                 JArray([i \in DOMAIN m.Subscriptions |->
                           JObject([Subscribe |->
                                        JBool(m.Subscriptions[i].Subscribe),
                                    Topic |->
                                        JString(m.Subscriptions[i].Topic)])]),
             Messages |-> JArray(<<>>),
             Control |-> JNull])

\* encoding/json on the dynamic type of a payload value.
RECURSIVE MarshalValue(_)
MarshalValue(x) ==
    CASE x.kind = "string" -> JString(x.val)
      [] x.kind = "bytes" ->
           IF x.val = <<>> THEN JNull ELSE JString(Base64Encode(x.val))
      [] x.kind = "bool" -> JBool(x.val)
      [] x.kind = "int" -> JNumber(x.val)
      [] x.kind = "peer.ID" -> JString(String(x.val))
      [] x.kind = "map" ->
           JObject([k \in DOMAIN x.val |-> MarshalValue(x.val[k])])
      [] x.kind = "struct" -> MarshalRPCMeta(x.val)

\* Faulty variant: the payload goes out under the name of the Go field.
Marshal_GoFieldName(e) ==
    IF Representable(e.Payload)
    THEN [data |-> Some(JObject([Type |-> JString(e.Type),
                                 PeerID |-> JString(String(e.PeerID)),
                                 Timestamp |-> JString(MarshalTime(e.Timestamp)),
                                 Payload |-> MarshalValue(e.Payload)])),
          err |-> None]
    ELSE [data |-> None, err |-> Some("json: unsupported type")]

\* json.Marshal(t) of a TraceEvent: the fields Type, PeerID, Timestamp and,
\* under the name of its tag, Payload; an error when the payload holds a
\* value JSON cannot represent.
Marshal(e) ==
    IF Representable(e.Payload)
    THEN [data |-> Some(JObject([Type |-> JString(e.Type),
                                 PeerID |-> JString(String(e.PeerID)),
                                 Timestamp |-> JString(MarshalTime(e.Timestamp)),
                                 Data |-> MarshalValue(e.Payload)])),
          err |-> None]
    ELSE [data |-> None, err |-> Some("json: unsupported type")]

\* json.Unmarshal into a value of type any, as a consumer of the stream
\* decodes the body.
RECURSIVE Unmarshal(_)
Unmarshal(x) ==
    CASE x.j = "string" -> GoString(x.v)
      [] x.j = "number" -> [kind |-> "float64", val |-> x.v]
      [] x.j = "bool" -> GoBool(x.v)
      [] x.j = "null" -> [kind |-> "nil", val |-> 0]
      [] x.j = "array" ->
           [kind |-> "slice", val |-> [i \in DOMAIN x.v |-> Unmarshal(x.v[i])]]
      [] x.j = "object" -> GoMap([k \in DOMAIN x.v |-> Unmarshal(x.v[k])])

\* TraceEvent.Data: the JSON encoding of the envelope; nil when
\* marshalling fails.
Data(e) ==
    LET r == Marshal(e)
    IN  IF r.err # None THEN None ELSE r.data

\* uuid.UUID.String() of the n-th UUID of the generator.
UUIDString(n) == "uuid-" \o ToString(n)

\* uuid.NewUUID(): the next UUID of the generator, or an error.
NewUUID(fails) ==
    IF fails THEN [u |-> None, err |-> Some("uuid: no time or node id")]
    ELSE [u |-> Some(uuidClock + 1), err |-> None]

\* Faulty variant: the key is the observer's peer id on every path.
PartitionKey_PeerID(t, r) == String(t.PeerID)

\* TraceEvent.PartitionKey, r being what uuid.NewUUID returned.
PartitionKey(t, r) ==
    IF r.err # None THEN String(t.PeerID) ELSE UUIDString(r.u[1])

\* TraceEvent.ExplicitHashKey
ExplicitHashKey(t) == None

\* ------------------------------------------------------------- delivery
\* Faulty variant: the deadline is minutes away instead of seconds.
WithTimeout_Minutes(d) == [deadline |-> now + 60 * d, done |-> FALSE]

\* context.WithTimeout(context.TODO(), d) taken at the current time.
WithTimeout(d) == [deadline |-> now + d, done |-> FALSE]

\* The call id of the invocation thread t is executing.
IdOf(t) == cb[t][1].id

\* Threads keep nothing between calls, so which idle thread runs a callback
\* makes no difference: the runtime uses the first one that is free.
Earlier(u, t) == u = "g1" /\ t = "g2"

\* A callback is entered: the thread is outside the tracer and the bounds
\* of the exploration leave room for the call and its full timeout.
Enter(t, name, kind) ==
    /\ pc[t] = "idle"
    /\ \A u \in Threads : Earlier(u, t) => pc[u] # "idle"
    /\ calls < MaxCalls
    /\ now + Timeout <= MaxTime
    /\ calls' = calls + 1
    /\ lastCall' = [name |-> name, kind |-> kind]
    /\ UNCHANGED recVars

Running(t, name, arg) ==
    cb' = [cb EXCEPT ![t] = Some([name |-> name, arg |-> arg, at |-> now,
                                  id |-> calls + 1])]

\* DataStream.PutEvent is called with the context and the record.
PutEvent(id) ==
    /\ sinkPuts' = [sinkPuts EXCEPT ![id] = @ + 1]
    /\ sinkResult' = [sinkResult EXCEPT ![id] = "pending"]

\* Faulty variant: the envelope lives in one buffer all threads share.
Publish_SharedBuffer(t, e) ==
    /\ evt' = [u \in Threads |-> Some(e)]
    /\ ctx' = [ctx EXCEPT ![t] = Some(WithTimeout(Timeout))]
    /\ PutEvent(calls + 1)
    /\ pc' = [pc EXCEPT ![t] = "PutEvent"]
    /\ UNCHANGED <<now, meterSubmittedTraces>>

\* The envelope is stored, the context derived and PutEvent called; the
\* thread now waits for PutEvent to return.
Publish(t, e) ==
    /\ evt' = [evt EXCEPT ![t] = Some(e)]
    /\ ctx' = [ctx EXCEPT ![t] = Some(WithTimeout(Timeout))]
    /\ PutEvent(calls + 1)
    /\ pc' = [pc EXCEPT ![t] = "PutEvent"]
    /\ UNCHANGED <<now, meterSubmittedTraces>>

\* Faulty variant: the record is put a second time.
FlushTraceWithTimestamp_PutTwice(t, evtType, timestamp, payload) ==
    /\ evt' = [evt EXCEPT ![t] = Some([Type |-> evtType, PeerID |-> ID,
                                       Timestamp |-> timestamp,
                                       Payload |-> payload])]
    /\ ctx' = [ctx EXCEPT ![t] = Some(WithTimeout(Timeout))]
    /\ sinkPuts' = [sinkPuts EXCEPT ![calls + 1] = @ + 2]
    /\ sinkResult' = [sinkResult EXCEPT ![calls + 1] = "pending"]
    /\ pc' = [pc EXCEPT ![t] = "PutEvent"]
    /\ UNCHANGED <<now, meterSubmittedTraces>>

\* Faulty variant: the envelope is encoded first and dropped, unpublished, when
\* that fails.
FlushTraceWithTimestamp_EncodeFirst(t, evtType, timestamp, payload) ==
    LET e == [Type |-> evtType, PeerID |-> ID, Timestamp |-> timestamp,
              Payload |-> payload]
    IN  IF Data(e) # None
        THEN Publish(t, e)
        ELSE /\ evt' = [evt EXCEPT ![t] = Some(e)]
             /\ pc' = [pc EXCEPT ![t] = "return"]
             /\ UNCHANGED <<ctx, now, sinkPuts, sinkResult,
                            meterSubmittedTraces>>

\* Faulty variant: the envelope names the peer the event is about.
FlushTraceWithTimestamp_PayloadPeer(t, evtType, timestamp, payload) ==
    Publish(t, [Type |-> evtType,
                PeerID |-> IF payload.kind = "map"
                              /\ "PeerID" \in DOMAIN payload.val
                           THEN payload.val.PeerID.val ELSE ID,
                Timestamp |-> timestamp, Payload |-> payload])

\* Faulty variant: the publish is started and the callback returns without
\* waiting for its result.
FlushTraceWithTimestamp_Async(t, evtType, timestamp, payload) ==
    /\ evt' = [evt EXCEPT ![t] = Some([Type |-> evtType, PeerID |-> ID,
                                       Timestamp |-> timestamp,
                                       Payload |-> payload])]
    /\ ctx' = [ctx EXCEPT ![t] = Some(WithTimeout(Timeout))]
    /\ PutEvent(calls + 1)
    /\ pc' = [pc EXCEPT ![t] = "return"]
    /\ UNCHANGED <<now, meterSubmittedTraces>>

\* Faulty variant: once a delivery has failed, later envelopes are dropped
\* without a publish attempt.
FlushTraceWithTimestamp_Breaker(t, evtType, timestamp, payload) ==
    LET e == [Type |-> evtType, PeerID |-> ID, Timestamp |-> timestamp,
              Payload |-> payload]
    IN  IF \A i \in CallIds : sinkResult[i] \notin {"err", "timeout"}
        THEN Publish(t, e)
        ELSE /\ evt' = [evt EXCEPT ![t] = Some(e)]
             /\ pc' = [pc EXCEPT ![t] = "return"]
             /\ UNCHANGED <<ctx, now, sinkPuts, sinkResult,
                            meterSubmittedTraces>>

FlushTraceWithTimestamp(t, evtType, timestamp, payload) ==
    Publish(t, [Type |-> evtType, PeerID |-> ID, Timestamp |-> timestamp,
                Payload |-> payload])

FlushTrace(t, evtType, payload) ==
    FlushTraceWithTimestamp(t, evtType, Unix(now, 0), payload)

\* Faulty variant: the error branch falls through to the counter.
AfterPutEvent_FallThrough(t, err) ==
    pc' = [pc EXCEPT ![t] = "Add"]

\* The branch after PutEvent: warn and return on error, else go on to Add.
AfterPutEvent(t, err) ==
    pc' = [pc EXCEPT ![t] = IF err # None THEN "return" ELSE "Add"]

\* PutEvent returns to thread t with the given result.
PutEventReturns(t, result) ==
    /\ pc[t] = "PutEvent"
    /\ sinkResult' = [sinkResult EXCEPT ![IdOf(t)] = result]
    /\ AfterPutEvent(t, IF result = "ok" THEN None ELSE Some(result))
    /\ UNCHANGED <<cb, evt, now, calls, lastCall, sinkPuts,
                   meterSubmittedTraces>>
    /\ UNCHANGED recVars

SinkAccepts(t) == PutEventReturns(t, "ok") /\ UNCHANGED ctx

SinkRejects(t) == PutEventReturns(t, "err") /\ UNCHANGED ctx

\* The context's deadline passes while PutEvent is outstanding: the call
\* returns the context's error.
ContextExpires(t) ==
    /\ pc[t] = "PutEvent"
    /\ now >= ctx[t][1].deadline
    /\ ctx' = [ctx EXCEPT ![t] = Some([ctx[t][1] EXCEPT !.done = TRUE])]
    /\ PutEventReturns(t, "timeout")

\* Faulty variant: the success is not counted.
Add_Forgotten(t) ==
    /\ pc[t] = "Add"
    /\ pc' = [pc EXCEPT ![t] = "return"]
    /\ UNCHANGED <<cb, evt, ctx, now, calls, lastCall, sinkPuts, sinkResult,
                   meterSubmittedTraces>>
    /\ UNCHANGED recVars

\* h.meterSubmittedTraces.Add(ctx, 1)
Add(t) ==
    /\ pc[t] = "Add"
    /\ meterSubmittedTraces' = meterSubmittedTraces + 1
    /\ pc' = [pc EXCEPT ![t] = "return"]
    /\ UNCHANGED <<cb, evt, ctx, now, calls, lastCall, sinkPuts, sinkResult>>
    /\ UNCHANGED recVars

\* Faulty variant: cancel is not deferred, the context outlives the call.
Return_NoCancel(t) ==
    /\ pc[t] = "return"
    /\ pc' = [pc EXCEPT ![t] = "idle"]
    /\ evt' = [evt EXCEPT ![t] = None]
    /\ cb' = [cb EXCEPT ![t] = None]
    /\ UNCHANGED <<ctx, now, calls, lastCall, sinkPuts, sinkResult,
                   meterSubmittedTraces>>
    /\ UNCHANGED recVars

\* The callback returns; the deferred cancel releases the context.
Return(t) ==
    /\ pc[t] = "return"
    /\ pc' = [pc EXCEPT ![t] = "idle"]
    /\ ctx' = [ctx EXCEPT ![t] = None]
    /\ evt' = [evt EXCEPT ![t] = None]
    /\ cb' = [cb EXCEPT ![t] = None]
    /\ UNCHANGED <<now, calls, lastCall, sinkPuts, sinkResult,
                   meterSubmittedTraces>>
    /\ UNCHANGED recVars

Min(a, b) == IF a <= b THEN a ELSE b

PendingDeadlines == {ctx[t][1].deadline : t \in {u \in Threads : pc[u] = "PutEvent"}}

\* The next reading of the clock: at most TickStep later, and never past
\* the deadline of a context that is being waited on.
NextTime ==
    LET cap == Min(now + TickStep, MaxTime)
        due == {d \in PendingDeadlines : d < cap}
    IN  IF due = {} THEN cap
        ELSE CHOOSE d \in due : \A e \in due : d <= e

\* Time passes while some thread waits inside PutEvent (nothing else in the
\* tracer takes time, and time between calls changes nothing); a deadline
\* that is reached is served before the clock moves on.
Tick ==
    /\ now < MaxTime
    /\ \E t \in Threads : pc[t] = "PutEvent"
    /\ \A t \in Threads : pc[t] \in {"idle", "PutEvent"}
    /\ \A d \in PendingDeadlines : now < d
    /\ now' = NextTime
    /\ UNCHANGED <<pc, cb, evt, ctx, calls, lastCall, sinkPuts, sinkResult,
                   meterSubmittedTraces>>
    /\ UNCHANGED recVars

\* --------------------------------------------------- lifecycle callbacks
AddPeer(t) ==
    \E p \in {RemotePeer}, proto \in Protocols :
        /\ Enter(t, "AddPeer", "")
        /\ Running(t, "AddPeer", [p |-> p, proto |-> proto])
        /\ FlushTrace(t, EventTypeAddPeer,
                      GoMap([PeerID |-> GoPeer(p), Protocol |-> GoString(proto)]))

RemovePeer(t) ==
    \E p \in {RemotePeer} :
        /\ Enter(t, "RemovePeer", "")
        /\ Running(t, "RemovePeer", [p |-> p])
        /\ FlushTrace(t, EventTypeRemovePeer, GoMap([PeerID |-> GoPeer(p)]))

Join(t) ==
    \E topic \in Topics :
        /\ Enter(t, "Join", "")
        /\ Running(t, "Join", [topic |-> topic])
        /\ FlushTrace(t, EventTypeJoin, GoMap([Topic |-> GoString(topic)]))

Leave(t) ==
    \E topic \in Topics :
        /\ Enter(t, "Leave", "")
        /\ Running(t, "Leave", [topic |-> topic])
        /\ FlushTrace(t, EventTypeLeave, GoMap([Topic |-> GoString(topic)]))

Graft(t) ==
    \E p \in {RemotePeer}, topic \in Topics :
        /\ Enter(t, "Graft", "")
        /\ Running(t, "Graft", [p |-> p, topic |-> topic])
        /\ FlushTrace(t, EventTypeGraft,
                      GoMap([PeerID |-> GoPeer(p), Topic |-> GoString(topic)]))

Prune(t) ==
    \E p \in {RemotePeer}, topic \in Topics :
        /\ Enter(t, "Prune", "")
        /\ Running(t, "Prune", [p |-> p, topic |-> topic])
        /\ FlushTrace(t, EventTypePrune,
                      GoMap([PeerID |-> GoPeer(p), Topic |-> GoString(topic)]))

\* Faulty variant: the sequence number goes under the key the other message
\* callbacks use.
ValidateMessage_Seq(t) ==
    \E msg \in Messages :
        /\ Enter(t, "ValidateMessage", "")
        /\ Running(t, "ValidateMessage", [msg |-> msg])
        /\ FlushTrace(t, EventTypeValidateMessage,
                      GoMap([PeerID |-> GoPeer(msg.ReceivedFrom),
                             Topic |-> GoString(GetTopic(msg)),
                             MsgID |-> GoString(EncodeToString(msg.ID)),
                             Local |-> GoBool(msg.Local),
                             MsgSize |-> GoInt(msg.Size),
                             Seq |-> GoString(EncodeToString(GetSeqno(msg)))]))

ValidateMessage(t) ==
    \E msg \in Messages :
        /\ Enter(t, "ValidateMessage", "")
        /\ Running(t, "ValidateMessage", [msg |-> msg])
        /\ FlushTrace(t, EventTypeValidateMessage,
                      GoMap([PeerID |-> GoPeer(msg.ReceivedFrom),
                             Topic |-> GoString(GetTopic(msg)),
                             MsgID |-> GoString(EncodeToString(msg.ID)),
                             Local |-> GoBool(msg.Local),
                             MsgSize |-> GoInt(msg.Size),
                             SeqNo |-> GoString(EncodeToString(GetSeqno(msg)))]))

DeliverMessage(t) ==
    \E msg \in Messages :
        /\ Enter(t, "DeliverMessage", "")
        /\ Running(t, "DeliverMessage", [msg |-> msg])
        /\ FlushTrace(t, EventTypeDeliverMessage,
                      GoMap([PeerID |-> GoPeer(msg.ReceivedFrom),
                             Topic |-> GoString(GetTopic(msg)),
                             MsgID |-> GoString(EncodeToString(msg.ID)),
                             Local |-> GoBool(msg.Local),
                             MsgSize |-> GoInt(msg.Size),
                             Seq |-> GoString(EncodeToString(GetSeqno(msg)))]))

RejectMessage(t) ==
    \E msg \in Messages, reason \in Reasons :
        /\ Enter(t, "RejectMessage", "")
        /\ Running(t, "RejectMessage", [msg |-> msg, reason |-> reason])
        /\ FlushTrace(t, EventTypeRejectMessage,
                      GoMap([PeerID |-> GoPeer(msg.ReceivedFrom),
                             Topic |-> GoString(GetTopic(msg)),
                             MsgID |-> GoString(EncodeToString(msg.ID)),
                             Reason |-> GoString(reason),
                             Local |-> GoBool(msg.Local),
                             MsgSize |-> GoInt(msg.Size),
                             Seq |-> GoString(EncodeToString(GetSeqno(msg)))]))

DuplicateMessage(t) ==
    \E msg \in Messages :
        /\ Enter(t, "DuplicateMessage", "")
        /\ Running(t, "DuplicateMessage", [msg |-> msg])
        /\ FlushTrace(t, EventTypeDuplicateMessage,
                      GoMap([PeerID |-> GoPeer(msg.ReceivedFrom),
                             Topic |-> GoString(GetTopic(msg)),
                             MsgID |-> GoString(EncodeToString(msg.ID)),
                             Local |-> GoBool(msg.Local),
                             MsgSize |-> GoInt(msg.Size),
                             Seq |-> GoString(EncodeToString(GetSeqno(msg)))]))

ThrottlePeer(t) ==
    \E p \in {RemotePeer} :
        /\ Enter(t, "ThrottlePeer", "")
        /\ Running(t, "ThrottlePeer", [p |-> p])
        /\ FlushTrace(t, EventTypeThrottlePeer, GoMap([PeerID |-> GoPeer(p)]))

UndeliverableMessage(t) ==
    \E msg \in Messages :
        /\ Enter(t, "UndeliverableMessage", "")
        /\ Running(t, "UndeliverableMessage", [msg |-> msg])
        /\ FlushTrace(t, EventTypeUndeliverableMessage,
                      GoMap([PeerID |-> GoPeer(msg.ReceivedFrom),
                             Topic |-> GoString(GetTopic(msg)),
                             MsgID |-> GoString(EncodeToString(msg.ID)),
                             Local |-> GoBool(msg.Local)]))

\* ------------------------------------------------- raw RPC callbacks
\* Empty bodies: the thread enters and returns at once.
NoOp == UNCHANGED <<pc, cb, evt, ctx, now, sinkPuts, sinkResult,
                    meterSubmittedTraces>>

\* Faulty variant: the raw callback reports the RPC as well.
RecvRPC_Flush(t) ==
    /\ Enter(t, "RecvRPC", "")
    /\ Running(t, "RecvRPC", [p |-> RemotePeer])
    /\ FlushTrace(t, EventTypeRecvRPC, newRPCMeta(RemotePeer, None))

RecvRPC(t) == Enter(t, "RecvRPC", "") /\ NoOp

SendRPC(t) == Enter(t, "SendRPC", "") /\ NoOp

DropRPC(t) == Enter(t, "DropRPC", "") /\ NoOp

\* ------------------------------------------------------- wire surface
\* Faulty variant: every RPC kind reports the peer of the SendRPC body.
TraceCases_SendTo(t, n, kind, ts) ==
    CASE kind = TraceEvent_PUBLISH_MESSAGE ->
           /\ Running(t, "Trace", [evt |-> n])
           /\ FlushTraceWithTimestamp(t, EventTypePublishMessage, ts,
                  GoMap([MsgID |-> GoBytes(GetMessageID(n)),
                         Topic |-> GoString(GetPublishTopic(n))]))
      [] kind = TraceEvent_RECV_RPC ->
           /\ Running(t, "Trace", [evt |-> n])
           /\ FlushTraceWithTimestamp(t, EventTypeRecvRPC, ts,
                  newRPCMeta(GetSendTo(n.SendRPC), GetMeta(n.RecvRPC)))
      [] kind = TraceEvent_SEND_RPC ->
           /\ Running(t, "Trace", [evt |-> n])
           /\ FlushTraceWithTimestamp(t, EventTypeSendRPC, ts,
                  newRPCMeta(GetSendTo(n.SendRPC), GetMeta(n.SendRPC)))
      [] kind = TraceEvent_DROP_RPC ->
           /\ Running(t, "Trace", [evt |-> n])
           /\ FlushTraceWithTimestamp(t, EventTypeDropRPC, ts,
                  newRPCMeta(GetSendTo(n.SendRPC), GetMeta(n.DropRPC)))
      [] OTHER -> NoOp

\* The switch of Trace on the notification's kind; no default case.
TraceCases(t, n, kind, ts) ==
    CASE kind = TraceEvent_PUBLISH_MESSAGE ->
           /\ Running(t, "Trace", [evt |-> n])
           /\ FlushTraceWithTimestamp(t, EventTypePublishMessage, ts,
                  GoMap([MsgID |-> GoBytes(GetMessageID(n)),
                         Topic |-> GoString(GetPublishTopic(n))]))
      [] kind = TraceEvent_RECV_RPC ->
           /\ Running(t, "Trace", [evt |-> n])
           /\ FlushTraceWithTimestamp(t, EventTypeRecvRPC, ts,
                  newRPCMeta(GetReceivedFrom(n), GetMeta(n.RecvRPC)))
      [] kind = TraceEvent_SEND_RPC ->
           /\ Running(t, "Trace", [evt |-> n])
           /\ FlushTraceWithTimestamp(t, EventTypeSendRPC, ts,
                  newRPCMeta(GetSendTo(n.SendRPC), GetMeta(n.SendRPC)))
      [] kind = TraceEvent_DROP_RPC ->
           /\ Running(t, "Trace", [evt |-> n])
           /\ FlushTraceWithTimestamp(t, EventTypeDropRPC, ts,
                  newRPCMeta(GetSendTo(n.DropRPC), GetMeta(n.DropRPC)))
      [] OTHER -> NoOp

\* Faulty variant: a default case reports the kinds the switch does not know.
TraceSwitch_Default(t, n) ==
    IF GetType(n) \in HandledKinds
    THEN TraceCases(t, n, GetType(n), Unix(0, GetTimestamp(n)))
    ELSE /\ Running(t, "Trace", [evt |-> n])
         /\ FlushTraceWithTimestamp(t, GetType(n), Unix(0, GetTimestamp(n)),
                                    GoMap([Kind |-> GoString(GetType(n))]))

\* Faulty variant: the envelope is stamped with the time of capture.
TraceSwitch_CaptureTime(t, n) == TraceCases(t, n, GetType(n), Unix(now, 0))

\* The body of Trace: the timestamp is read off the notification, then the
\* switch.
TraceSwitch(t, n) == TraceCases(t, n, GetType(n), Unix(0, GetTimestamp(n)))

Trace(t) ==
    \E n \in Notifications :
        /\ Enter(t, "Trace", GetType(n))
        /\ TraceSwitch(t, n)

\* ------------------------------------------------ direct use of FlushTrace
\* FlushTrace is exported: other parts of the host hand it payloads of
\* their own, which json.Marshal may or may not be able to represent.
DirectPayloads ==
    { GoMap([Note |-> GoString("ok")]),
      GoMap([Note |-> GoChan]),
      GoChan }

DirectFlushTrace(t) ==
    \E payload \in DirectPayloads :
        /\ Enter(t, "FlushTrace", "")
        /\ Running(t, "FlushTrace", [payload |-> payload])
        /\ FlushTrace(t, EventTypeJoin, payload)

Next ==
    \E t \in Threads :
        \/ AddPeer(t)
        \/ RemovePeer(t)
        \/ Join(t)
        \/ Leave(t)
        \/ Graft(t)
        \/ Prune(t)
        \/ ValidateMessage(t)
        \/ DeliverMessage(t)
        \/ RejectMessage(t)
        \/ DuplicateMessage(t)
        \/ ThrottlePeer(t)
        \/ UndeliverableMessage(t)
        \/ RecvRPC(t)
        \/ SendRPC(t)
        \/ DropRPC(t)
        \/ Trace(t)
        \/ DirectFlushTrace(t)
        \/ SinkAccepts(t)
        \/ SinkRejects(t)
        \/ ContextExpires(t)
        \/ Add(t)
        \/ Return(t)
        \/ Tick

Spec == Init /\ [][Next]_vars

\* Fairness: the clock advances, an expired context makes PutEvent return,
\* and a thread that is running Go code keeps running.  Nothing is assumed
\* of the sink: it need never answer.
LiveSpec ==
    /\ Spec
    /\ WF_vars(Tick)
    /\ \A t \in Threads :
          /\ WF_vars(ContextExpires(t))
          /\ WF_vars(Add(t))
          /\ WF_vars(Return(t))

\* ------------------------------------------- the record seen by the sink
\* Type and payload of envelopes the callbacks and FlushTrace build.
RecordPayloads ==
    { [Type |-> EventTypeJoin, Payload |-> GoMap([Topic |-> GoString("topic-A")])],
      [Type |-> EventTypeAddPeer,
       Payload |-> GoMap([PeerID |-> GoPeer(RemotePeer),
                          Protocol |-> GoString("/meshsub/1.1.0")])],
      [Type |-> EventTypePublishMessage,
       Payload |-> GoMap([MsgID |-> GoBytes(<<171, 18>>),
                          Topic |-> GoString("topic-A")])],
      [Type |-> EventTypeRecvRPC,
       Payload |-> newRPCMeta(RemotePeer, Some(RPCBody))],
      [Type |-> EventTypeSendRPC, Payload |-> newRPCMeta(RemotePeer, None)],
      [Type |-> EventTypeJoin, Payload |-> GoMap([Note |-> GoChan])],
      [Type |-> EventTypeJoin, Payload |-> GoChan] }
    \cup { [Type |-> EventTypeValidateMessage,
            Payload |-> GoMap([PeerID |-> GoPeer(msg.ReceivedFrom),
                               Topic |-> GoString(GetTopic(msg)),
                               MsgID |-> GoString(EncodeToString(msg.ID)),
                               Local |-> GoBool(msg.Local),
                               MsgSize |-> GoInt(msg.Size),
                               SeqNo |-> GoString(EncodeToString(GetSeqno(msg)))])]
            : msg \in Messages }

RecordTimes == {Unix(0, 0), Unix(5, 0), Unix(0, 1500000000), Unix(0, -1)}

Records ==
    { [Type |-> p.Type, PeerID |-> ID, Timestamp |-> ts, Payload |-> p.Payload]
      : p \in RecordPayloads, ts \in RecordTimes }

\* The sink holds one record and has called none of its methods yet.
RecordInit ==
    /\ pc = [t \in Threads |-> "idle"]
    /\ cb = [t \in Threads |-> None]
    /\ evt = [t \in Threads |-> None]
    /\ ctx = [t \in Threads |-> None]
    /\ now = 0
    /\ calls = 0
    /\ lastCall = [name |-> "none", kind |-> ""]
    /\ sinkPuts = [i \in CallIds |-> 0]
    /\ sinkResult = [i \in CallIds |-> "none"]
    /\ meterSubmittedTraces = 0
    /\ rec \in {Some(e) : e \in Records}
    /\ uuidClock = 0
    /\ keys = <<>>
    /\ wire = None

hostVars == <<pc, cb, evt, ctx, now, calls, lastCall, sinkPuts, sinkResult,
              meterSubmittedTraces>>

\* The sink asks the record for its partition key.
PartitionKeyCall ==
    /\ rec # None
    /\ Len(keys) < MaxKeys
    /\ \E fails \in BOOLEAN :
          LET r == NewUUID(fails)
          IN  /\ keys' = Append(keys, [key |-> PartitionKey(rec[1], r),
                                       err |-> r.err])
              /\ uuidClock' = IF fails THEN uuidClock ELSE uuidClock + 1
    /\ UNCHANGED <<rec, wire>>
    /\ UNCHANGED hostVars

\* The sink asks the record for its serialized body.
DataCall ==
    /\ rec # None
    /\ wire = None
    /\ wire' = Some(Data(rec[1]))
    /\ UNCHANGED <<rec, uuidClock, keys>>
    /\ UNCHANGED hostVars

RecordNext == PartitionKeyCall \/ DataCall

RecordSpec == RecordInit /\ [][RecordNext]_vars

\* ================================================================ claims
Accepted == {i \in CallIds : sinkResult[i] = "ok"}

Failed == {i \in CallIds : sinkResult[i] \in {"err", "timeout"}}

InFlight == {t \in Threads : cb[t] # None}

AllIdle == \A t \in Threads : pc[t] = "idle"

RECURSIVE SumPuts(_)
SumPuts(S) ==
    IF S = {} THEN 0
    ELSE LET i == CHOOSE j \in S : TRUE IN sinkPuts[i] + SumPuts(S \ {i})

EncodeFails(t) == evt[t] # None /\ Data(evt[t][1]) = None

\* C1: the submitted-traces counter starts at 0, counts exactly the PutEvent
\* calls that returned success (a thread that has the success in hand but
\* has not yet executed Add is the only difference), grows by one at a
\* time and never decreases.
C1_CounterCountsAccepted ==
    /\ [](meterSubmittedTraces
            = Cardinality(Accepted) - Cardinality({t \in Threads : pc[t] = "Add"}))
    /\ [](AllIdle => meterSubmittedTraces = Cardinality(Accepted))
    /\ [][meterSubmittedTraces' \in
            {meterSubmittedTraces, meterSubmittedTraces + 1}]_vars

C1_Witness ==
    /\ AllIdle
    /\ Cardinality(Accepted) = 2
    /\ meterSubmittedTraces = 2

\* C2: when PutEvent returns an error or the context times out, the step
\* leaves the counter alone and sends the thread to its return; the return
\* discards the event without touching the counter or the sink.
C2_FailureLeavesCounter ==
    [][\A t \in Threads :
          /\ (pc[t] = "PutEvent" /\ pc'[t] # "PutEvent"
                /\ sinkResult'[IdOf(t)] \in {"err", "timeout"})
             => (pc'[t] = "return"
                   /\ meterSubmittedTraces' = meterSubmittedTraces)
          /\ (pc[t] = "return" /\ sinkResult[IdOf(t)] \in {"err", "timeout"}
                /\ pc'[t] # pc[t])
             => (pc'[t] = "idle" /\ evt'[t] = None
                   /\ meterSubmittedTraces' = meterSubmittedTraces
                   /\ sinkPuts' = sinkPuts /\ sinkResult' = sinkResult)]_vars

C2_Witness ==
    /\ AllIdle
    /\ \E i, j \in CallIds : sinkResult[i] = "err" /\ sinkResult[j] = "timeout"
    /\ meterSubmittedTraces = 0

\* C3: a thread is never inside a callback for more than Timeout, and every
\* callback that was entered returns, whatever the sink does.
C3_BoundedAndReturns ==
    /\ [](\A t \in InFlight : now - cb[t][1].at <= Timeout)
    /\ \A t \in Threads : (pc[t] # "idle") ~> (pc[t] = "idle")

C3_Witness ==
    \E t \in InFlight :
        /\ pc[t] = "return"
        /\ sinkResult[IdOf(t)] = "timeout"
        /\ now - cb[t][1].at = Timeout

\* C4: the sink sees at most one PutEvent per callback invocation, and an
\* invocation whose PutEvent failed or timed out is never put again.
C4_NoRetry ==
    /\ [](\A i \in CallIds : sinkPuts[i] <= 1)
    /\ [][\A i \in Failed :
             sinkPuts'[i] = sinkPuts[i] /\ sinkResult'[i] = sinkResult[i]]_vars

C4_Witness ==
    /\ sinkResult[1] \in {"err", "timeout"}
    /\ sinkPuts[1] = 1
    /\ sinkPuts[2] = 1
    /\ sinkResult[2] = "ok"

C6_UnhandledKindIgnored ==
    [][(calls' = calls + 1 /\ lastCall'.name = "Trace"
          /\ lastCall'.kind \notin HandledKinds)
       => UNCHANGED <<pc, cb, evt, ctx, sinkPuts, sinkResult,
                      meterSubmittedTraces>>]_vars

C6_Witness ==
    /\ lastCall.name = "Trace"
    /\ lastCall.kind = TraceEvent_JOIN
    /\ calls = 2
    /\ SumPuts(CallIds) = 1

\* C7: RecvRPC, SendRPC and DropRPC build no envelope, put nothing and leave
\* the counter alone, so an RPC reported through them and through Trace
\* yields the one envelope Trace builds.
C7_RawRPCCallbacksNoOp ==
    [][(calls' = calls + 1
          /\ lastCall'.name \in {"RecvRPC", "SendRPC", "DropRPC"})
       => UNCHANGED <<pc, cb, evt, ctx, sinkPuts, sinkResult,
                      meterSubmittedTraces>>]_vars

C7_Witness ==
    /\ calls = 2
    /\ lastCall.name = "RecvRPC"
    /\ \E t \in InFlight :
          /\ cb[t][1].name = "Trace"
          /\ GetType(cb[t][1].arg.evt) = TraceEvent_RECV_RPC
          /\ evt[t][1].Type = EventTypeRecvRPC
    /\ SumPuts(CallIds) = 1

\* C8: the PeerID of every envelope is the local node's identity, also when
\* the callback was handed a remote peer.
C8_ObserverIsLocal ==
    \A t \in Threads : evt[t] # None => evt[t][1].PeerID = HostID

C8_Witness ==
    \E t \in Threads :
        /\ evt[t] # None
        /\ evt[t][1].Payload.kind = "map"
        /\ "PeerID" \in DOMAIN evt[t][1].Payload.val
        /\ evt[t][1].Payload.val.PeerID.val = RemotePeer
        /\ evt[t][1].PeerID = HostID

LifecycleNames ==
    {"AddPeer", "RemovePeer", "Join", "Leave", "Graft", "Prune",
     "ValidateMessage", "DeliverMessage", "RejectMessage", "DuplicateMessage",
     "ThrottlePeer", "UndeliverableMessage"}

\* C9: the envelope of a Trace call carries the notification's timestamp
\* (its UnixNano is the notification's value), and the envelope of a
\* lifecycle callback carries the clock reading taken when it was entered;
\* neither changes while delivery is outstanding.
C9_Timestamps ==
    \A t \in InFlight :
        /\ cb[t][1].name = "Trace"
             => UnixNano(evt[t][1].Timestamp) = GetTimestamp(cb[t][1].arg.evt)
        /\ cb[t][1].name \in LifecycleNames
             => evt[t][1].Timestamp = Unix(cb[t][1].at, 0)

C9_Witness ==
    /\ now = Timeout
    /\ \E t, u \in InFlight :
          /\ cb[t][1].name = "Trace"
          /\ cb[t][1].at = 0
          /\ UnixNano(evt[t][1].Timestamp) = 1500000000
          /\ cb[u][1].name \in LifecycleNames
          /\ cb[u][1].at > 0
          /\ evt[u][1].Timestamp = Unix(cb[u][1].at, 0)

\* The payload keys documented for each lifecycle event.
DocumentedKeys(name) ==
    CASE name = "AddPeer" -> {"PeerID", "Protocol"}
      [] name \in {"RemovePeer", "ThrottlePeer"} -> {"PeerID"}
      [] name \in {"Join", "Leave"} -> {"Topic"}
      [] name \in {"Graft", "Prune"} -> {"PeerID", "Topic"}
      [] name = "ValidateMessage" ->
            {"PeerID", "Topic", "MsgID", "Local", "MsgSize", "SeqNo"}
      [] name \in {"DeliverMessage", "DuplicateMessage"} ->
            {"PeerID", "Topic", "MsgID", "Local", "MsgSize", "Seq"}
      [] name = "RejectMessage" ->
            {"PeerID", "Topic", "MsgID", "Reason", "Local", "MsgSize", "Seq"}
      [] name = "UndeliverableMessage" -> {"PeerID", "Topic", "MsgID", "Local"}

DocumentedType(name) ==
    CASE name = "AddPeer" -> EventTypeAddPeer
      [] name = "RemovePeer" -> EventTypeRemovePeer
      [] name = "Join" -> EventTypeJoin
      [] name = "Leave" -> EventTypeLeave
      [] name = "Graft" -> EventTypeGraft
      [] name = "Prune" -> EventTypePrune
      [] name = "ValidateMessage" -> EventTypeValidateMessage
      [] name = "DeliverMessage" -> EventTypeDeliverMessage
      [] name = "RejectMessage" -> EventTypeRejectMessage
      [] name = "DuplicateMessage" -> EventTypeDuplicateMessage
      [] name = "ThrottlePeer" -> EventTypeThrottlePeer
      [] name = "UndeliverableMessage" -> EventTypeUndeliverableMessage

\* C10: a lifecycle callback produces exactly one envelope, of the type of
\* the invoking method, whose payload is a map with exactly the documented
\* keys.
C10_LifecycleEnvelope ==
    \A t \in InFlight :
        cb[t][1].name \in LifecycleNames =>
            /\ evt[t] # None
            /\ sinkPuts[IdOf(t)] = 1
            /\ evt[t][1].Type = DocumentedType(cb[t][1].name)
            /\ evt[t][1].Payload.kind = "map"
            /\ DOMAIN evt[t][1].Payload.val = DocumentedKeys(cb[t][1].name)

C10_Witness ==
    \E t, u \in InFlight :
        /\ cb[t][1].name = "RejectMessage"
        /\ "Reason" \in DOMAIN evt[t][1].Payload.val
        /\ cb[u][1].name = "ValidateMessage"
        /\ "SeqNo" \in DOMAIN evt[u][1].Payload.val

\* The envelope type documented for each handled notification kind.
WireType(kind) ==
    CASE kind = TraceEvent_PUBLISH_MESSAGE -> EventTypePublishMessage
      [] kind = TraceEvent_RECV_RPC -> EventTypeRecvRPC
      [] kind = TraceEvent_SEND_RPC -> EventTypeSendRPC
      [] kind = TraceEvent_DROP_RPC -> EventTypeDropRPC

\* The peer field documented as the counterparty of each RPC kind.
Counterparty(n) ==
    CASE GetType(n) = TraceEvent_RECV_RPC ->
           IF n.RecvRPC = None THEN "" ELSE n.RecvRPC[1].ReceivedFrom
      [] GetType(n) = TraceEvent_SEND_RPC ->
           IF n.SendRPC = None THEN "" ELSE n.SendRPC[1].SendTo
      [] GetType(n) = TraceEvent_DROP_RPC ->
           IF n.DropRPC = None THEN "" ELSE n.DropRPC[1].SendTo

\* C11: a Trace call of a handled kind produces exactly one envelope, of the
\* type of that kind and no other; the payload of PUBLISH_MESSAGE is a map
\* with exactly the keys MsgID and Topic, the payload of RECV_RPC names the
\* "received from" peer and the payloads of SEND_RPC and DROP_RPC name the
\* "send to" peer of their own body.
C11_TraceDispatch ==
    \A t \in InFlight :
        cb[t][1].name = "Trace" =>
            LET n == cb[t][1].arg.evt
                e == evt[t][1]
            IN  /\ GetType(n) \in HandledKinds
                /\ evt[t] # None
                /\ sinkPuts[IdOf(t)] = 1
                /\ e.Type = WireType(GetType(n))
                /\ GetType(n) = TraceEvent_PUBLISH_MESSAGE
                     => /\ e.Payload.kind = "map"
                        /\ DOMAIN e.Payload.val = {"MsgID", "Topic"}
                        /\ e.Payload.val.MsgID.val = GetMessageID(n)
                        /\ e.Payload.val.Topic.val = GetPublishTopic(n)
                /\ GetType(n) # TraceEvent_PUBLISH_MESSAGE
                     => /\ e.Payload.kind = "struct"
                        /\ e.Payload.val.PeerID = Counterparty(n)

C11_Witness ==
    \E t, u \in InFlight :
        /\ cb[t][1].name = "Trace"
        /\ GetType(cb[t][1].arg.evt) = TraceEvent_RECV_RPC
        /\ GetSendTo(cb[t][1].arg.evt.SendRPC) = "peerB"
        /\ evt[t][1].Type = EventTypeRecvRPC
        /\ evt[t][1].Payload.val.PeerID = RemotePeer
        /\ cb[u][1].name = "Trace"
        /\ GetType(cb[u][1].arg.evt) = TraceEvent_DROP_RPC
        /\ evt[u][1].Type = EventTypeDropRPC
        /\ evt[u][1].Payload.val.PeerID = RemotePeer

\* C12 as stated: every partition key is a freshly generated identifier,
\* never the observer's peer id, whatever the UUID generator returned.
C12_KeyNeverFromContent ==
    \A i \in 1..Len(keys) :
        /\ keys[i].key # String(rec[1].PeerID)
        /\ \A j \in 1..Len(keys) : i # j => keys[i].key # keys[j].key

\* C12 as amended: a partition key is the text of a UUID generated for this
\* call, different from the key of every other call, whenever the generator
\* succeeded; when the generator failed, the key is the text of the
\* observer's peer id.  The rest of the envelope never enters the key.
C12_KeyFreshOrPeerID ==
    \A i \in 1..Len(keys) :
        /\ keys[i].err = None
             => /\ keys[i].key \in {UUIDString(n) : n \in 1..uuidClock}
                /\ keys[i].key # String(rec[1].PeerID)
                /\ \A j \in 1..Len(keys) : i # j => keys[i].key # keys[j].key
        /\ keys[i].err # None => keys[i].key = String(rec[1].PeerID)

C12_Witness ==
    /\ Len(keys) = 2
    /\ keys[1].err = None
    /\ keys[1].key = UUIDString(1)
    /\ keys[2].err # None
    /\ keys[2].key = String(HostID)

\* The byte string behind the identifier stored under key k by thread t.
Underlying(t, k) ==
    IF cb[t][1].name = "Trace" THEN GetMessageID(cb[t][1].arg.evt)
    ELSE IF k = "MsgID" THEN cb[t][1].arg.msg.ID
    ELSE GetSeqno(cb[t][1].arg.msg)

\* C13: in every envelope, of a lifecycle callback or of Trace, the value
\* under MsgID, Seq or SeqNo is a string, the lowercase hexadecimal text of
\* the underlying bytes, and never the bytes themselves.
C13_IdentifiersHex ==
    \A t \in InFlight :
        (evt[t] # None /\ evt[t][1].Payload.kind = "map") =>
            \A k \in DOMAIN evt[t][1].Payload.val \cap {"MsgID", "Seq", "SeqNo"} :
                /\ evt[t][1].Payload.val[k].kind = "string"
                /\ evt[t][1].Payload.val[k].val = EncodeToString(Underlying(t, k))

\* The envelope type the call thread t is executing asks for.
OwnType(t) ==
    CASE cb[t][1].name \in LifecycleNames -> DocumentedType(cb[t][1].name)
      [] cb[t][1].name = "Trace" -> WireType(GetType(cb[t][1].arg.evt))
      [] cb[t][1].name = "FlushTrace" -> EventTypeJoin

\* The thread that owns call id i in the state after a step.
OwnerAfter(t, i) == cb'[t] # None /\ cb'[t][1].id = i

\* C14: deliveries running at the same time do not touch each other: a step
\* changes the call, envelope and context of no thread but the one that
\* takes it, and the sink's record of a call only by a step of the thread
\* that makes the call; the envelope of a thread is the one its own call
\* built (its type, and for a lifecycle callback its entry time) and stays
\* as built until the thread returns; every Add step raises the counter by
\* one, so that all accepted deliveries are counted once the threads are
\* back.
C14_ConcurrentDeliveries ==
    /\ [][\A t \in Threads :
             pc'[t] = pc[t]
                => (cb'[t] = cb[t] /\ evt'[t] = evt[t] /\ ctx'[t] = ctx[t])]_vars
    /\ [][\A i \in CallIds :
             (sinkPuts'[i] # sinkPuts[i] \/ sinkResult'[i] # sinkResult[i])
                => \E t \in Threads : pc'[t] # pc[t] /\ OwnerAfter(t, i)]_vars
    /\ [][\A t \in Threads :
             (evt[t] # None /\ pc'[t] # "idle") => evt'[t] = evt[t]]_vars
    /\ [](\A t \in Threads :
             IF cb[t] = None THEN evt[t] = None
             ELSE /\ evt[t] # None
                  /\ evt[t][1].Type = OwnType(t)
                  /\ cb[t][1].name \in LifecycleNames
                       => evt[t][1].Timestamp = Unix(cb[t][1].at, 0))
    /\ [][\A t \in Threads :
             (pc[t] = "Add" /\ pc'[t] # "Add")
                => meterSubmittedTraces' = meterSubmittedTraces + 1]_vars
    /\ [](AllIdle => meterSubmittedTraces = Cardinality(Accepted))

C14_Witness ==
    /\ pc["g1"] = "Add"
    /\ pc["g2"] = "Add"
    /\ evt["g1"][1].Type = EventTypeGraft
    /\ evt["g2"][1].Type = EventTypeRecvRPC
    /\ evt["g1"][1].Timestamp # evt["g2"][1].Timestamp
    /\ meterSubmittedTraces = 0

\* C15: a thread outside the tracer holds no context; a thread that is
\* delivering holds one context of its own, whose deadline is Timeout after
\* the call was entered, from the publish until it returns; and a context is
\* released by the step in which its thread returns and by no other,
\* whether the publish succeeded, failed or timed out.
C15_ContextReleasedOnReturn ==
    /\ [](\A t \in Threads :
             /\ pc[t] = "idle" => ctx[t] = None
             /\ pc[t] # "idle"
                  => /\ ctx[t] # None
                     /\ ctx[t][1].deadline = cb[t][1].at + Timeout
                     /\ ctx[t][1].done => sinkResult[IdOf(t)] = "timeout")
    /\ [][\A t \in Threads :
             /\ (ctx[t] # None /\ ctx'[t] = None)
                  => (pc[t] = "return" /\ pc'[t] = "idle")
             /\ (pc[t] # "idle" /\ pc'[t] = "idle")
                  => (ctx[t] # None /\ ctx'[t] = None
                        /\ sinkResult[IdOf(t)] \in {"ok", "err", "timeout"})]_vars

C15_Witness ==
    /\ AllIdle
    /\ calls = 2
    /\ sinkResult[1] = "timeout"
    /\ sinkResult[2] \in {"ok", "err"}
    /\ \A t \in Threads : ctx[t] = None

\* The payload value x and the decoded value d hold the same content.
RECURSIVE SameContent(_, _)
SameContent(x, d) ==
    CASE x.kind = "string" -> d = GoString(x.val)
      [] x.kind = "bytes" ->
           IF x.val = <<>> THEN d.kind = "nil"
           ELSE d.kind = "string" /\ Base64Decode(d.val) = x.val
      [] x.kind = "bool" -> d = GoBool(x.val)
      [] x.kind = "int" -> d.kind = "float64" /\ d.val = x.val
      [] x.kind = "peer.ID" -> d = GoString(String(x.val))
      [] x.kind = "map" ->
           /\ d.kind = "map"
           /\ DOMAIN d.val = DOMAIN x.val
           /\ \A k \in DOMAIN x.val : SameContent(x.val[k], d.val[k])
      [] x.kind = "struct" ->
           /\ d.kind = "map"
           /\ DOMAIN d.val = DOMAIN x.val
           /\ d.val.PeerID = GoString(String(x.val.PeerID))
           /\ d.val.Subscriptions.kind = "slice"
           /\ DOMAIN d.val.Subscriptions.val = DOMAIN x.val.Subscriptions
           /\ \A i \in DOMAIN x.val.Subscriptions :
                 d.val.Subscriptions.val[i]
                   = GoMap([Subscribe |-> GoBool(x.val.Subscriptions[i].Subscribe),
                            Topic |-> GoString(x.val.Subscriptions[i].Topic)])
      [] OTHER -> FALSE

\* The body the sink read decodes to an object with the members Type,
\* PeerID, Timestamp and Data that hold the values of the record.
RoundTrips ==
    /\ wire[1] # None
    /\ LET d == Unmarshal(wire[1][1])
       IN  /\ d.kind = "map"
           /\ DOMAIN d.val = {"Type", "PeerID", "Timestamp", "Data"}
           /\ d.val.Type = GoString(rec[1].Type)
           /\ d.val.PeerID = GoString(String(rec[1].PeerID))
           /\ d.val.Timestamp.kind = "string"
           /\ ParseTime(d.val.Timestamp.val) = rec[1].Timestamp
           /\ SameContent(rec[1].Payload, d.val.Data)

C17_StepsOrdered ==
    /\ [][\A t \in Threads :
             pc'[t] # pc[t] =>
                \/ /\ pc[t] = "idle" /\ pc'[t] = "PutEvent"
                   /\ evt'[t] # None
                   /\ sinkPuts[cb'[t][1].id] = 0
                   /\ sinkPuts'[cb'[t][1].id] = 1
                   /\ sinkResult'[cb'[t][1].id] = "pending"
                   /\ meterSubmittedTraces' = meterSubmittedTraces
                \/ /\ pc[t] = "PutEvent" /\ pc'[t] = "Add"
                   /\ sinkResult[IdOf(t)] = "pending"
                   /\ sinkResult'[IdOf(t)] = "ok"
                   /\ meterSubmittedTraces' = meterSubmittedTraces
                \/ /\ pc[t] = "PutEvent" /\ pc'[t] = "return"
                   /\ sinkResult[IdOf(t)] = "pending"
                   /\ sinkResult'[IdOf(t)] \in {"err", "timeout"}
                   /\ meterSubmittedTraces' = meterSubmittedTraces
                \/ /\ pc[t] = "Add" /\ pc'[t] = "return"
                   /\ sinkResult[IdOf(t)] = "ok"
                   /\ meterSubmittedTraces' = meterSubmittedTraces + 1
                \/ /\ pc[t] = "return" /\ pc'[t] = "idle"
                   /\ sinkResult[IdOf(t)] \in {"ok", "err", "timeout"}
                   /\ meterSubmittedTraces' = meterSubmittedTraces]_vars
    /\ [](\A i \in CallIds :
             sinkResult[i] = "pending"
                => \E t \in InFlight : pc[t] = "PutEvent" /\ IdOf(t) = i)
    /\ [][meterSubmittedTraces' # meterSubmittedTraces
            => \E t \in Threads : /\ pc[t] = "Add"
                                  /\ pc'[t] = "return"
                                  /\ sinkResult[IdOf(t)] = "ok"]_vars

C17_Witness ==
    \E t, u \in InFlight :
        /\ pc[t] = "return"
        /\ sinkResult[IdOf(t)] = "ok"
        /\ sinkPuts[IdOf(t)] = 1
        /\ meterSubmittedTraces = 1
        /\ pc[u] = "return"
        /\ sinkResult[IdOf(u)] = "err"

\* The calls made before call i whose delivery failed or timed out.
FailedBefore(i) == {j \in Failed : j < i}

\* C18: a call made after deliveries that failed or timed out is treated
\* like any other: it has its own envelope, of the type it asked for, one
\* PutEvent at the sink, and a context whose deadline is the full Timeout
\* after its own entry; when the sink accepts it the thread goes on to Add,
\* and once it has passed Add the counter has counted it.
C18_NoStateBetweenEvents ==
    /\ [](\A t \in InFlight :
             FailedBefore(IdOf(t)) # {} =>
                /\ evt[t] # None
                /\ evt[t][1].Type = OwnType(t)
                /\ sinkPuts[IdOf(t)] = 1
                /\ sinkResult[IdOf(t)] # "none"
                /\ ctx[t] # None
                /\ ctx[t][1].deadline = cb[t][1].at + Timeout
                /\ (pc[t] = "PutEvent" /\ now < ctx[t][1].deadline)
                     => (~ctx[t][1].done /\ sinkResult[IdOf(t)] = "pending")
                /\ (pc[t] = "return" /\ sinkResult[IdOf(t)] = "ok")
                     => meterSubmittedTraces
                          = Cardinality(Accepted)
                            - Cardinality({u \in Threads : pc[u] = "Add"}))
    /\ [][\A t \in Threads :
             (Failed # {} /\ pc[t] = "PutEvent" /\ pc'[t] # "PutEvent"
                /\ sinkResult'[IdOf(t)] = "ok")
             => pc'[t] = "Add"]_vars

C18_Witness ==
    /\ sinkResult[1] = "timeout"
    /\ cb["g1"] # None
    /\ IdOf("g1") = 2
    /\ cb["g1"][1].at = Timeout
    /\ ctx["g1"][1].deadline = 2 * Timeout
    /\ pc["g1"] = "return"
    /\ sinkResult[2] = "ok"
    /\ meterSubmittedTraces = 1
====
